---------------------------- MODULE Spec2Model ----------------------------
(***************************************************************************)
(* The agent conversation state machine of temporal-ai-agent:              *)
(* AgentGoalWorkflow (src/workflows/agent_goal_workflow.py) and its        *)
(* helpers (src/workflows/workflow_helpers.py).                            *)
(*                                                                         *)
(* One step of the model is one uninterrupted stretch of workflow code:    *)
(* a signal handler, or the main coroutine from one await to the next.     *)
(* An activity in flight is a value of pc; its completion is an action     *)
(* whose outcome is drawn from the outcomes the activity can have.         *)
(***************************************************************************)
EXTENDS Integers, Sequences, FiniteSets

VARIABLES
    conversation_history,    \* self.conversation_history["messages"]
    prompt_queue,            \* self.prompt_queue
    conversation_summary,    \* self.conversation_summary
    chat_ended,              \* self.chat_ended
    tool_data,               \* self.tool_data
    confirm,                 \* self.confirm
    tool_results,            \* self.tool_results
    continued_from_previous, \* self.continued_from_previous
    waiting_for_confirm,     \* local of run()
    current_tool,            \* local of run()
    prompt,                  \* local of run(): the prompt dequeued last
    params,                  \* combined_input.tool_params of this context
    pc,                      \* position of run()
    runs,                    \* number of execution contexts started so far
    submitted,               \* user_prompt signals delivered so far
    accepted,                \* user_prompt signals that were enqueued
    dequeued,                \* ids of the signal prompts popped so far, in order
    dispatched,              \* tool activities started since the last planner result
    end_chat_received,       \* an end_chat signal was delivered, in this context or before
    end_chat_in_summary,     \* under TrackedSpec: an end_chat arrived while this context's
                             \* summary activity was in flight
    validation_result,       \* local of run(): the outcome of the last validation
    selector_text,           \* AgentSelectorWorkflow.run: its conversation_history argument
    selector_goal,           \* AgentSelectorWorkflow.run: the goal id it returned
    midi_args,               \* midi_creation_tool: its args dictionary
    midi_result,             \* midi_creation_tool: the dictionary it returned
    api_request,             \* the HTTP request being handled by src/api/main.py
    api_response             \* what the client gets for it

vars == <<conversation_history, prompt_queue, conversation_summary, chat_ended,
          tool_data, confirm, tool_results, continued_from_previous,
          waiting_for_confirm, current_tool, prompt, params, pc, runs,
          submitted, accepted, dequeued, dispatched, end_chat_received, end_chat_in_summary,
          validation_result, selector_text, selector_goal, midi_args, midi_result,
          api_request, api_response>>

\* the variables of the conversation workflow
workflow_vars ==
    <<conversation_history, prompt_queue, conversation_summary, chat_ended,
      tool_data, confirm, tool_results, continued_from_previous,
      waiting_for_confirm, current_tool, prompt, params, pc, runs,
      submitted, accepted, dequeued, dispatched, end_chat_received, end_chat_in_summary,
      validation_result>>

\* the variables of the goal selector, which the conversation workflow never
\* touches
selector_vars == <<selector_text, selector_goal>>

\* the variables of the MIDI tool
midi_vars == <<midi_args, midi_result>>

\* the variables of the HTTP API
api_vars == <<api_request, api_response>>

---------------------------------------------------------------------------
(* Bounds of the model.                                                    *)

\* MAX_TURNS_BEFORE_CONTINUE is 200 in agent_goal_workflow.py:24; the model
\* runs the same comparison against a turn budget scaled down to this value.
MAX_TURNS_BEFORE_CONTINUE == 4

\* user_prompt signals delivered over the whole conversation
MaxPrompts == 2

\* execution contexts (the first run and its continue-as-new successors)
MaxRuns == 2

---------------------------------------------------------------------------
(* Values.                                                                 *)

None == [none |-> TRUE]

NoTool == ""

\* the value of selector_goal before the selector has returned
NotSelected == "not_selected"

\* an args dictionary without the key music_text
NoMusicText == [unused |-> TRUE]

\* the value of midi_result before the tool has returned
NotCalled == [status |-> "not_called"]

\* no HTTP request made, no response sent
NoRequest == [handler |-> "none"]

NoResponse == [kind |-> "none"]

Tools == {"ToolA", "ToolB"}

\* The args map of a planner result: either every value is set, or some
\* value is None.
ArgsComplete == "complete"

ArgsMissing == "missing"

\* What ToolActivities.agent_toolPlanner can return: ToolData.
ToolData ==
    [next : {"confirm", "question", "done"}, tool : Tools, args : {ArgsComplete, ArgsMissing}]
    \cup [next : {"confirm", "question", "done"}, tool : {NoTool}, args : {ArgsComplete}]

\* What the planner returns in summarize mode: an object of the format the
\* summary prompt asks for (workflow_helpers.py:177), which is never empty.
SummaryFull == [summary |-> "planner"]

\* workflow_helpers.py:129
SummaryPlaceholder == [summary |-> "Continued conversation from previous session"]

\* A prompt string: where it came from, whether it starts with "###", and
\* for a prompt that came in by signal its acceptance number.
Prompt(src, marker, id) == [src |-> src, marker |-> marker, id |-> id]

NoPrompt == Prompt("none", FALSE, 0)

\* line 119: prompt.startswith("###")
startswith_marker_never(p) == FALSE

startswith_marker(p) == p.marker

generate_tool_completion_prompt(tool, result) == Prompt("tool_completion", TRUE, 0)

generate_missing_args_prompt(tool, td) == Prompt("missing_args", TRUE, 0)

\* the truth value of params.conversation_summary, line 55
Truthy_never(summary) == FALSE

Truthy(summary) == summary # None

\* deque.append, line 203 and workflow_helpers.py lines 55 and 68
deque_appendleft(q, p) == <<p>> \o q

deque_append(q, p) == Append(q, p)

---------------------------------------------------------------------------
(* AgentGoalWorkflow.add_message                                           *)

add_message_front(history, actor, response) ==
    <<[actor |-> actor, response |-> response]>> \o history

add_message(history, actor, response) ==
    Append(history, [actor |-> actor, response |-> response])

---------------------------------------------------------------------------
(* The initial state: the API starts the workflow with                     *)
(* AgentGoalWorkflowParams(None, None).                                    *)

InitWorkflow ==
    /\ conversation_history = <<>>
    /\ prompt_queue = <<>>
    /\ conversation_summary = None
    /\ chat_ended = FALSE
    /\ tool_data = None
    /\ confirm = FALSE
    /\ tool_results = <<>>
    /\ continued_from_previous = FALSE
    /\ waiting_for_confirm = FALSE
    /\ current_tool = NoTool
    /\ prompt = NoPrompt
    /\ params = [conversation_summary |-> None, prompt_queue |-> <<>>]
    /\ pc = "start"
    /\ runs = 0
    /\ submitted = 0
    /\ accepted = 0
    /\ dequeued = <<>>
    /\ dispatched = 0
    /\ end_chat_received = FALSE
    /\ end_chat_in_summary = FALSE
    /\ validation_result = None

\* no selector run, no tool call and no HTTP request yet
InitSelector == selector_text = <<>> /\ selector_goal = NotSelected

InitMidi == midi_args = NoMusicText /\ midi_result = NotCalled

InitApi == api_request = NoRequest /\ api_response = NoResponse

Init ==
    /\ InitWorkflow
    /\ InitSelector
    /\ InitMidi
    /\ InitApi

---------------------------------------------------------------------------
(* AgentGoalWorkflow.__init__ and run() up to the main loop: a new         *)
(* execution context starts from its tool_params.                          *)

\* run(), lines 54-63: the history a context starts with.
SeededHistory_keeps(summary) == conversation_history

SeededHistory(summary) ==
    IF Truthy(summary)
      THEN add_message(add_message(<<>>, "system", [type |-> "continuation"]),
                       "conversation_summary", summary)
      ELSE <<>>

RunStart ==
    /\ pc \in {"start", "continue_as_new"}
    /\ runs < MaxRuns
    /\ runs' = runs + 1
    /\ conversation_history' = SeededHistory(params.conversation_summary)
    /\ continued_from_previous' = Truthy(params.conversation_summary)
    /\ conversation_summary' =
         IF Truthy(params.conversation_summary) THEN params.conversation_summary ELSE None
    /\ prompt_queue' = params.prompt_queue
    /\ chat_ended' = FALSE
    /\ tool_data' = None
    /\ confirm' = FALSE
    /\ tool_results' = <<>>
    /\ waiting_for_confirm' = FALSE
    /\ current_tool' = NoTool
    /\ prompt' = NoPrompt
    /\ validation_result' = None
    /\ dispatched' = 0
    /\ pc' = "wait"
    /\ end_chat_in_summary' = FALSE
    /\ UNCHANGED <<selector_vars, midi_vars, api_vars, params, submitted, accepted, dequeued,
                   end_chat_received>>

---------------------------------------------------------------------------
(* Signal handlers. A signal is applied while run() is suspended: at the   *)
(* wait condition or while an activity is in flight.                       *)

Suspended == pc \in {"wait", "validate", "plan", "tool", "summary"}

\* user_prompt, lines 196-203
user_prompt_eager(marker) ==
    /\ Suspended
    /\ submitted < MaxPrompts
    /\ submitted' = submitted + 1
    /\ conversation_history' =
         add_message(conversation_history, "user", Prompt("signal", marker, accepted + 1))
    /\ IF chat_ended
         THEN UNCHANGED <<prompt_queue, accepted>>
         ELSE /\ prompt_queue' = deque_append(prompt_queue, Prompt("signal", marker, accepted + 1))
              /\ accepted' = accepted + 1
    /\ UNCHANGED <<selector_vars, midi_vars, api_vars, conversation_summary, chat_ended, tool_data,
                   confirm, tool_results, continued_from_previous, waiting_for_confirm,
                   current_tool, prompt, params, pc, runs, dequeued, dispatched,
                   validation_result, end_chat_received, end_chat_in_summary>>

user_prompt(marker) ==
    /\ Suspended
    /\ submitted < MaxPrompts
    /\ submitted' = submitted + 1
    /\ IF chat_ended
         THEN UNCHANGED <<prompt_queue, accepted>>
         ELSE /\ prompt_queue' = deque_append(prompt_queue, Prompt("signal", marker, accepted + 1))
              /\ accepted' = accepted + 1
    /\ UNCHANGED <<selector_vars, midi_vars, api_vars, conversation_history, conversation_summary, chat_ended, tool_data,
                   confirm, tool_results, continued_from_previous, waiting_for_confirm,
                   current_tool, prompt, params, pc, runs, dequeued, dispatched,
                   validation_result, end_chat_received, end_chat_in_summary>>

\* confirm, lines 205-209
confirm_signal ==
    /\ Suspended
    /\ confirm' = TRUE
    /\ UNCHANGED <<selector_vars, midi_vars, api_vars, conversation_history, prompt_queue, conversation_summary, chat_ended,
                   tool_data, tool_results, continued_from_previous, waiting_for_confirm,
                   current_tool, prompt, params, pc, runs, submitted, accepted, dequeued,
                   dispatched, validation_result, end_chat_received, end_chat_in_summary>>

\* end_chat, lines 211-215
end_chat ==
    /\ Suspended
    /\ chat_ended' = TRUE
    /\ end_chat_received' = TRUE
    /\ UNCHANGED end_chat_in_summary
    /\ UNCHANGED <<selector_vars, midi_vars, api_vars, conversation_history, prompt_queue, conversation_summary, tool_data,
                   confirm, tool_results, continued_from_previous, waiting_for_confirm,
                   current_tool, prompt, params, pc, runs, submitted, accepted, dequeued,
                   dispatched, validation_result>>

\* the same handler, with a record of whether the summary activity was in
\* flight when the signal arrived
end_chat_tracked ==
    /\ Suspended
    /\ chat_ended' = TRUE
    /\ end_chat_received' = TRUE
    /\ end_chat_in_summary' = (end_chat_in_summary \/ pc = "summary")
    /\ UNCHANGED <<selector_vars, midi_vars, api_vars, conversation_history, prompt_queue, conversation_summary, tool_data,
                   confirm, tool_results, continued_from_previous, waiting_for_confirm,
                   current_tool, prompt, params, pc, runs, submitted, accepted, dequeued,
                   dispatched, validation_result>>

---------------------------------------------------------------------------
(* The main loop of run(), lines 76-194.                                   *)

\* the wait condition, lines 78-80
WaitCondition == prompt_queue # <<>> \/ chat_ended \/ confirm

\* the condition of the confirm branch, line 89
ConfirmBranch ==
    confirm /\ waiting_for_confirm /\ current_tool # NoTool /\ tool_data # None

\* line 91: the value given to waiting_for_confirm once a confirmation is handled
waiting_after_confirm_kept == waiting_for_confirm

waiting_after_confirm == FALSE

\* lines 83-86: return the history
LoopEndChat ==
    /\ pc = "wait"
    /\ chat_ended
    /\ pc' = "done"
    /\ UNCHANGED <<selector_vars, midi_vars, api_vars, conversation_history, prompt_queue, conversation_summary, chat_ended,
                   tool_data, confirm, tool_results, continued_from_previous,
                   waiting_for_confirm, current_tool, prompt, params, runs, submitted,
                   accepted, dequeued, dispatched, validation_result, end_chat_received, end_chat_in_summary>>

\* lines 89-97 and workflow_helpers.py lines 29-47: the confirmed tool run is
\* recorded and the tool activity started
LoopConfirm ==
    /\ pc = "wait"
    /\ ~chat_ended
    /\ ConfirmBranch
    /\ confirm' = FALSE
    /\ waiting_for_confirm' = waiting_after_confirm
    /\ conversation_history' =
         add_message(conversation_history, "user_confirmed_tool_run",
                     [tool_data EXCEPT !.next = "user_confirmed_tool_run"])
    /\ dispatched' = dispatched + 1
    /\ pc' = "tool"
    /\ UNCHANGED <<selector_vars, midi_vars, api_vars, prompt_queue, conversation_summary, chat_ended, tool_data,
                   tool_results, continued_from_previous, current_tool, prompt, params,
                   runs, submitted, accepted, dequeued, validation_result, end_chat_received, end_chat_in_summary>>

\* workflow_helpers.py lines 111-124: continue_as_new_if_needed up to its await
continue_as_new_if_needed(history) ==
    IF Len(history) >= MAX_TURNS_BEFORE_CONTINUE THEN "summary" ELSE "wait"

\* workflow_helpers.py lines 37-55 and agent_goal_workflow.py lines 105-113:
\* the tool activity ends, its outcome is recorded and narrated
ToolOutcome_untagged(ok) ==
    IF ok THEN [tool |-> NoTool, status |-> "success"]
          ELSE [tool |-> NoTool, error |-> "ActivityError"]

ToolOutcome(ok) ==
    IF ok THEN [tool |-> current_tool, status |-> "success"]
          ELSE [tool |-> current_tool, error |-> "ActivityError"]

\* workflow_helpers.py lines 50-52 and agent_goal_workflow.py lines 105-113:
\* ActivityError is caught, so whatever the outcome run() goes on to the
\* continuation check
after_tool_uncaught(ok, history) ==
    IF ok THEN continue_as_new_if_needed(history) ELSE "failed"

after_tool(ok, history) == continue_as_new_if_needed(history)

handle_tool_execution(ok) ==
    /\ pc = "tool"
    /\ tool_results' = IF ok THEN Append(tool_results, ToolOutcome(ok)) ELSE tool_results
    /\ conversation_history' = add_message(conversation_history, "tool_result", ToolOutcome(ok))
    /\ prompt_queue' =
         deque_append(prompt_queue, generate_tool_completion_prompt(current_tool, ToolOutcome(ok)))
    /\ pc' = after_tool(ok, conversation_history')
    /\ UNCHANGED <<selector_vars, midi_vars, api_vars, conversation_summary, chat_ended, tool_data, confirm,
                   continued_from_previous, waiting_for_confirm, current_tool, prompt,
                   params, runs, submitted, accepted, dequeued, dispatched,
                   validation_result, end_chat_received, end_chat_in_summary>>

\* lines 116-136: a prompt is dequeued; unless it carries the marker it is
\* appended to the history and the validation activity started
LoopPrompt ==
    /\ pc = "wait"
    /\ ~chat_ended
    /\ ~ConfirmBranch
    /\ prompt_queue # <<>>
    /\ prompt' = Head(prompt_queue)
    /\ prompt_queue' = Tail(prompt_queue)
    /\ dequeued' = IF prompt'.src = "signal" THEN Append(dequeued, prompt'.id) ELSE dequeued
    /\ IF ~startswith_marker(prompt')
         THEN /\ conversation_history' = add_message(conversation_history, "user", prompt')
              /\ pc' = "validate"
         ELSE /\ UNCHANGED conversation_history
              /\ pc' = "plan"
    /\ UNCHANGED <<selector_vars, midi_vars, api_vars, conversation_summary, chat_ended, tool_data, confirm, tool_results,
                   continued_from_previous, waiting_for_confirm, current_tool, params,
                   runs, submitted, accepted, dispatched, validation_result, end_chat_received, end_chat_in_summary>>

\* lines 76-80 with neither branch taken: the wait condition holds because of
\* self.confirm alone, and the iteration changes nothing
LoopSpin ==
    /\ pc = "wait"
    /\ WaitCondition
    /\ ~chat_ended
    /\ ~ConfirmBranch
    /\ prompt_queue = <<>>
    /\ UNCHANGED vars

\* lines 128-145: the validation activity ends
ValidationOk == [validationResult |-> TRUE]

ValidationRejected == [validationResult |-> FALSE]

\* lines 138-147: where run() goes after the validation
after_validation_no_continue(result) == "plan"

after_validation(result) == IF result.validationResult THEN "plan" ELSE "wait"

ValidateComplete(result) ==
    /\ pc = "validate"
    /\ validation_result' = result
    /\ IF ~result.validationResult
         THEN conversation_history' =
                add_message(conversation_history, "agent",
                            [validationFailedReason |-> "reason"])
         ELSE UNCHANGED conversation_history
    /\ pc' = after_validation(result)
    /\ UNCHANGED <<selector_vars, midi_vars, api_vars, prompt_queue, conversation_summary, chat_ended, tool_data, confirm,
                   tool_results, continued_from_previous, waiting_for_confirm,
                   current_tool, prompt, params, runs, submitted, accepted, dequeued,
                   dispatched, end_chat_received, end_chat_in_summary>>

\* lines 128 and 157: an activity that exhausts its schedule-to-close budget
\* raises ActivityError, which run() does not catch
ActivityFails ==
    /\ pc \in {"validate", "plan"}
    /\ pc' = "failed"
    /\ UNCHANGED <<selector_vars, midi_vars, api_vars, conversation_history, prompt_queue, conversation_summary, chat_ended,
                   tool_data, confirm, tool_results, continued_from_previous,
                   waiting_for_confirm, current_tool, prompt, params, runs, submitted,
                   accepted, dequeued, dispatched, validation_result, end_chat_received, end_chat_in_summary>>

\* workflow_helpers.py lines 58-75
handle_missing_args(td) == td.args = ArgsMissing

\* lines 180-183: next = done returns the history right after its message
after_done_checks(history) == continue_as_new_if_needed(history)

after_done(history) == "done"

\* lines 157-194: the planner activity ends with the result td
PlanComplete(td) ==
    /\ pc = "plan"
    /\ tool_data' = td
    /\ current_tool' = td.tool
    /\ dispatched' = 0
    /\ IF td.next = "confirm" /\ td.tool # NoTool
         THEN IF handle_missing_args(td)
                THEN /\ prompt_queue' =
                          deque_append(prompt_queue, generate_missing_args_prompt(td.tool, td))
                     /\ pc' = "wait"
                     /\ UNCHANGED <<conversation_history, waiting_for_confirm, confirm>>
                ELSE /\ waiting_for_confirm' = TRUE
                     /\ confirm' = FALSE
                     /\ conversation_history' = add_message(conversation_history, "agent", td)
                     /\ pc' = continue_as_new_if_needed(conversation_history')
                     /\ UNCHANGED prompt_queue
         ELSE IF td.next = "done"
                THEN /\ conversation_history' = add_message(conversation_history, "agent", td)
                     /\ pc' = after_done(conversation_history')
                     /\ UNCHANGED <<prompt_queue, waiting_for_confirm, confirm>>
                ELSE /\ conversation_history' = add_message(conversation_history, "agent", td)
                     /\ pc' = continue_as_new_if_needed(conversation_history')
                     /\ UNCHANGED <<prompt_queue, waiting_for_confirm, confirm>>
    /\ UNCHANGED <<selector_vars, midi_vars, api_vars, conversation_summary, chat_ended, tool_results,
                   continued_from_previous, prompt, params, runs, submitted, accepted,
                   dequeued, validation_result, end_chat_received, end_chat_in_summary>>

\* workflow_helpers.py lines 115-152: the summary activity ends (or fails and
\* the placeholder is used), the notice and the summary are appended and the
\* hand-off is issued with the summary and list(prompt_queue)
\* line 149: list(prompt_queue)
list_prompt_queue_dropped(q) == <<>>

list_prompt_queue(q) == q

\* workflow_helpers.py lines 115-152: a failed summary activity is caught
\* (line 126), so whatever the outcome the hand-off is issued
after_summary_uncaught(ok) == IF ok THEN "continue_as_new" ELSE "failed"

after_summary(ok) == "continue_as_new"

SummaryComplete(ok) ==
    /\ pc = "summary"
    /\ LET summary == IF ok THEN SummaryFull ELSE SummaryPlaceholder
       IN /\ conversation_history' =
               add_message(add_message(conversation_history, "system", [type |-> "system"]),
                           "conversation_summary", summary)
          /\ params' = [conversation_summary |-> summary,
                         prompt_queue |-> list_prompt_queue(prompt_queue)]
    /\ pc' = after_summary(ok)
    /\ UNCHANGED <<selector_vars, midi_vars, api_vars, prompt_queue, conversation_summary, chat_ended, tool_data, confirm,
                   tool_results, continued_from_previous, waiting_for_confirm,
                   current_tool, prompt, runs, submitted, accepted, dequeued, dispatched,
                   validation_result, end_chat_received, end_chat_in_summary>>

---------------------------------------------------------------------------

\* the queries, lines 217-241
get_conversation_history == conversation_history

get_workflow_state ==
    [message_count |-> Len(conversation_history),
     waiting_for_confirm |-> (tool_data # None /\ tool_data.next = "confirm"),
     continued_from_previous |-> continued_from_previous,
     max_turns_before_continue |-> MAX_TURNS_BEFORE_CONTINUE]

Next ==
    \/ RunStart
    \/ \E marker \in BOOLEAN : user_prompt(marker)
    \/ confirm_signal
    \/ end_chat
    \/ LoopEndChat
    \/ LoopConfirm
    \/ \E ok \in BOOLEAN : handle_tool_execution(ok)
    \/ LoopPrompt
    \/ LoopSpin
    \/ \E result \in {ValidationOk, ValidationRejected} : ValidateComplete(result)
    \/ ActivityFails
    \/ \E td \in ToolData : PlanComplete(td)
    \/ \E ok \in BOOLEAN : SummaryComplete(ok)

Spec == Init /\ [][Next]_vars

\* The same with the scheduling the engine provides: run() is resumed when its
\* wait condition holds, a new context is started after a hand-off, and every
\* activity in flight ends, with a result or with a failure.
Fairness ==
    /\ WF_vars(RunStart)
    /\ WF_vars(LoopEndChat)
    /\ WF_vars(LoopConfirm)
    /\ WF_vars(LoopPrompt)
    /\ WF_vars(\E ok \in BOOLEAN : handle_tool_execution(ok))
    /\ WF_vars((\E result \in {ValidationOk, ValidationRejected} : ValidateComplete(result))
                 \/ (pc = "validate" /\ ActivityFails))
    /\ WF_vars((\E td \in ToolData : PlanComplete(td)) \/ (pc = "plan" /\ ActivityFails))
    /\ WF_vars(\E ok \in BOOLEAN : SummaryComplete(ok))

LiveSpec == Spec /\ Fairness

\* The same program with end_chat_in_summary kept up to date.
TrackedNext ==
    \/ RunStart
    \/ \E marker \in BOOLEAN : user_prompt(marker)
    \/ confirm_signal
    \/ end_chat_tracked
    \/ LoopEndChat
    \/ LoopConfirm
    \/ \E ok \in BOOLEAN : handle_tool_execution(ok)
    \/ LoopPrompt
    \/ LoopSpin
    \/ \E result \in {ValidationOk, ValidationRejected} : ValidateComplete(result)
    \/ ActivityFails
    \/ \E td \in ToolData : PlanComplete(td)
    \/ \E ok \in BOOLEAN : SummaryComplete(ok)

TrackedSpec == Init /\ [][TrackedNext]_vars

---------------------------------------------------------------------------
(* AgentSelectorWorkflow.run (src/workflows/agent_selector.py): the goal   *)
(* selector, a function of the conversation text. A text is a sequence of  *)
(* words separated by single blanks; a phrase occurs in a text when its    *)
(* words occur there one after the other.                                  *)

\* words per text
MaxWords == 4

LowerWords ==
    {"only", "use", "music", "tool", "json", "uk", "travel", "train", "booking",
     "oceania", "events", "event"}

\* words that str.lower changes
UpperWords == {"Only", "MUSIC", "Json"}

Texts == UNION {[1..n -> LowerWords \cup UpperWords] : n \in 0..MaxWords}

\* str.lower on one word
lower_word(w) ==
    CASE w = "Only" -> "only"
      [] w = "MUSIC" -> "music"
      [] w = "Json" -> "json"
      [] OTHER -> w

\* lines 38-47: conversation_history.lower()
lower_skipped(text) == text

lower(text) == [i \in 1..Len(text) |-> lower_word(text[i])]

\* phrase in text, lines 38-47
contains(text, phrase) ==
    \E i \in 1..(Len(text) - Len(phrase) + 1) :
        SubSeq(text, i, i + Len(phrase) - 1) = phrase

\* lines 34-51
AgentSelectorWorkflow_run(conversation_text) ==
    LET text_lower == lower(conversation_text)
    IN IF \/ contains(text_lower, <<"only", "use", "music", "tool">>)
          \/ contains(text_lower, <<"only", "music">>)
         THEN "music_creation_goal"
       ELSE IF \/ contains(text_lower, <<"only", "use", "json", "tool">>)
               \/ contains(text_lower, <<"only", "json">>)
         THEN "json_array_creation_goal"
       ELSE IF \/ contains(text_lower, <<"only", "uk", "travel">>)
               \/ contains(text_lower, <<"only", "train", "booking">>)
         THEN "goal_match_train_invoice"
       ELSE IF \/ contains(text_lower, <<"only", "oceania", "events">>)
               \/ contains(text_lower, <<"only", "event", "booking">>)
         THEN "goal_event_flight_invoice"
       ELSE "unified_agent_goal"

\* the selector workflow is started with a conversation text
SelectorInit ==
    /\ InitWorkflow
    /\ InitMidi
    /\ InitApi
    /\ selector_text \in Texts
    /\ selector_goal = NotSelected

\* the workflow runs and returns the goal id
SelectorRun ==
    /\ selector_goal = NotSelected
    /\ selector_goal' = AgentSelectorWorkflow_run(selector_text)
    /\ UNCHANGED <<workflow_vars, midi_vars, api_vars, selector_text>>

\* the same text is submitted again
SelectorRerun ==
    /\ selector_goal # NotSelected
    /\ selector_goal' = AgentSelectorWorkflow_run(selector_text)
    /\ UNCHANGED <<workflow_vars, midi_vars, api_vars, selector_text>>

SelectorNext == SelectorRun \/ SelectorRerun

SelectorSpec == SelectorInit /\ [][SelectorNext]_vars

---------------------------------------------------------------------------
(* midi_creation_tool (src/tools/midi_creation_tool.py). A duration is     *)
(* counted in hundredths, so the range 0 to 2 of the code is 0 to 200.     *)

\* items per music_text list
MaxItems == 2

\* line 72: ticks per quarter note
TicksPerBeat == 480

\* line 88
velocity == 64

\* a member of an item: a number, or a value that is not a number (a string
\* such as "C4", or null)
Num(n) == [num |-> n]

NotANumber == [str |-> "C4"]

IsNumber(v) == "num" \in DOMAIN v

MidiNotes == {Num(n) : n \in {0, 20, 21, 60, 108, 109}} \cup {NotANumber}

MidiDurations == {Num(d) : d \in {-50, 0, 50, 200, 250}} \cup {NotANumber}

\* an item of music_text: a (note, duration) pair, or a list of another length
MidiItems ==
    {<<note, duration>> : note \in MidiNotes, duration \in MidiDurations}
      \cup {<<Num(60)>>, <<Num(60), Num(50), Num(50)>>}

MusicTexts == UNION {[1..n -> MidiItems] : n \in 0..MaxItems}

MidiArgs == {NoMusicText} \cup {[music_text |-> l] : l \in MusicTexts}

\* line 57: the range of a sounding note
note_in_range(note) == 21 <= note /\ note <= 108

\* lines 57, 64 and 125-126: comparing a number with a value that is not one
\* raises TypeError, which the except clause turns into an error result
TypeErrorResult ==
    [error |-> [text |-> "'<=' not supported between instances of 'int' and 'str'"],
     status |-> "error"]

\* lines 47-124: the loop over the items, midi_messages being the messages
\* built so far
RECURSIVE process_items(_, _)
process_items(items, midi_messages) ==
    IF items = <<>>
      THEN [result |-> midi_messages,
            status |-> "success",
            midi_data |-> [messages_count |-> Len(midi_messages)]]
      ELSE LET item == Head(items)
           IN IF Len(item) # 2
                THEN [error |-> [text |-> "Invalid format for item", item |-> item],
                      status |-> "error"]
                ELSE LET note == item[1]
                         duration == item[2]
                         ticks == (duration.num * TicksPerBeat) \div 100
                     IN IF ~IsNumber(note)
                          THEN TypeErrorResult
                        ELSE IF note.num # 0 /\ ~note_in_range(note.num)
                          THEN [error |-> [text |-> "Invalid note", note |-> note],
                                status |-> "error"]
                        ELSE IF ~IsNumber(duration)
                          THEN TypeErrorResult
                        ELSE IF ~(0 <= duration.num /\ duration.num <= 200)
                          THEN [error |-> [text |-> "Invalid duration",
                                           duration |-> duration],
                                status |-> "error"]
                        ELSE IF note.num = 0
                          THEN process_items(Tail(items),
                                 Append(midi_messages,
                                        [type |-> "delay", time |-> ticks,
                                         duration |-> duration.num]))
                          ELSE process_items(Tail(items),
                                 midi_messages \o
                                   <<[type |-> "note_on", note |-> note.num,
                                      velocity |-> velocity, time |-> 0],
                                     [type |-> "note_off", note |-> note.num,
                                      velocity |-> 0, time |-> ticks]>>)

\* lines 31-33 and 35-124
midi_creation_tool(args) ==
    IF "music_text" \notin DOMAIN args
      THEN [error |-> [text |-> "Missing 'music_text' argument"], status |-> "error"]
      ELSE process_items(args.music_text, <<>>)

\* the tool is called with an args dictionary
MidiInit ==
    /\ InitWorkflow
    /\ InitSelector
    /\ InitApi
    /\ midi_args \in MidiArgs
    /\ midi_result = NotCalled

MidiRun ==
    /\ midi_result = NotCalled
    /\ midi_result' = midi_creation_tool(midi_args)
    /\ UNCHANGED <<workflow_vars, selector_vars, api_vars, midi_args>>

MidiNext == MidiRun

MidiSpec == MidiInit /\ [][MidiNext]_vars

---------------------------------------------------------------------------
(* The HTTP handlers of src/api/main.py, each a function of what the       *)
(* engine (and, for run-tool, the tool registry) does during the request.  *)
(* The engine raises TemporalError (RPCError and the query and workflow    *)
(* errors are subclasses), and asyncio.wait_for raises TimeoutError.       *)

Handlers ==
    {"send_prompt", "send_confirm", "end_chat", "start_workflow", "get_tool_data",
     "get_conversation_history", "get_workflow_state", "run_tool"}

\* what happens during one request
Environments ==
    [available : BOOLEAN,      \* temporal_client and temporal_available
     reconnect : BOOLEAN,      \* get_temporal_client() succeeds
     describe  : {"running", "completed", "failed_state", "not_found", "temporal_error"},
     query     : {"ok", "timeout", "handler_missing", "temporal_error"},
     fallback  : BOOLEAN,      \* the fallback query of get_workflow_state succeeds
     call      : {"ok", "temporal_error", "error"},     \* start_workflow or signal
     tool      : {"no_name", "ok", "value_error", "error"}]

Requests == [handler : Handlers, env : Environments]

\* a handler returns a dictionary, or FastAPI answers for an HTTPException
Payload(body) == [kind |-> "payload", body |-> body]

HTTPException(status_code, detail) ==
    [kind |-> "http_error", status_code |-> status_code, detail |-> detail]

\* lines 243-267; the query is awaited without wait_for, so a query that
\* gets no answer ends with the RPC error of the client
api_get_tool_data(env) ==
    IF ~env.available
      THEN Payload([error |-> "Temporal service unavailable", status |-> "error"])
    ELSE IF env.describe \in {"not_found", "temporal_error"} THEN Payload([empty |-> TRUE])
    ELSE IF env.describe = "completed" THEN Payload([empty |-> TRUE])
    ELSE IF env.query = "ok" THEN Payload([tool_data |-> "query result"])
    ELSE Payload([empty |-> TRUE])

\* lines 270-308
api_get_conversation_history(env) ==
    IF ~env.available THEN Payload([messages |-> <<>>])
    ELSE IF env.describe \in {"not_found", "temporal_error"} THEN Payload([messages |-> <<>>])
    ELSE IF env.describe = "failed_state" THEN Payload([messages |-> <<>>])
    ELSE IF env.query = "ok" THEN Payload([messages |-> <<"query result">>])
    ELSE Payload([messages |-> <<>>])

\* lines 311-340
api_send_prompt(env) ==
    IF ~env.available
      THEN Payload([message |-> "Cannot send prompt: Temporal service unavailable",
                    error |-> TRUE])
    ELSE IF env.call = "ok" THEN Payload([message |-> "Prompt sent to workflow"])
    ELSE Payload([message |-> "Error sending prompt", error |-> TRUE])

\* lines 343-358
api_send_confirm(env) ==
    IF ~env.available
      THEN Payload([message |-> "Cannot confirm: Temporal service unavailable",
                    error |-> TRUE])
    ELSE IF env.call = "ok" THEN Payload([message |-> "Confirm signal sent."])
    ELSE Payload([message |-> "Error confirming", error |-> TRUE])

\* lines 361-380
api_end_chat(env) ==
    IF ~env.available
      THEN Payload([message |-> "No active chat to end (Temporal unavailable)",
                    status |-> "ok"])
    ELSE IF env.call = "ok" THEN Payload([message |-> "End chat signal sent."])
    ELSE IF env.call = "temporal_error" THEN Payload([message |-> "No active chat to end"])
    ELSE Payload([message |-> "Error ending chat", error |-> TRUE])

\* lines 383-417
api_start_workflow(env) ==
    IF ~env.available
      THEN Payload([message |-> "Cannot start workflow: Temporal service unavailable",
                    error |-> TRUE])
    ELSE IF env.call = "ok"
      THEN Payload([message |-> "Workflow started with goal's starter prompt"])
    ELSE Payload([message |-> "Error starting workflow", error |-> TRUE])

\* lines 440-450: the inner try of run_tool
run_tool_inner(env) ==
    IF env.tool = "ok" THEN Payload([result |-> "tool result"])
    ELSE IF env.tool = "value_error" THEN HTTPException(404, "ValueError")
    ELSE HTTPException(500, "Error executing tool")

\* lines 452-453: HTTPException is an Exception, so whatever is raised inside
\* the outer try is raised again as a 500
run_tool_outer(raised) == HTTPException(500, "Server error")

\* lines 420-453
api_run_tool(env) ==
    LET inside == IF env.tool = "no_name"
                    THEN HTTPException(400, "Tool name is required")
                    ELSE run_tool_inner(env)
    IN IF inside.kind = "http_error" THEN run_tool_outer(inside) ELSE inside

\* lines 456-542
api_get_workflow_state(env) ==
    IF ~env.available /\ ~env.reconnect
      THEN Payload([exists |-> FALSE, error |-> "Temporal service unavailable"])
    ELSE IF env.describe = "failed_state"
      THEN Payload([exists |-> FALSE, error |-> "Workflow is in a failed state"])
    ELSE IF env.describe = "not_found" THEN Payload([exists |-> FALSE, not_found |-> TRUE])
    ELSE IF env.describe = "temporal_error"
      THEN Payload([exists |-> FALSE, error |-> "TemporalError"])
    ELSE IF env.query = "ok" THEN Payload([exists |-> TRUE, state |-> "query result"])
    ELSE IF env.query = "timeout"
      THEN Payload([exists |-> TRUE, error |-> "Temporal query timed out"])
    ELSE IF env.query = "handler_missing"
      THEN IF env.fallback
             THEN Payload([exists |-> TRUE, message_count |-> "len(messages)",
                           waiting_for_confirm |-> FALSE,
                           continued_from_previous |-> FALSE])
             ELSE Payload([exists |-> TRUE, message_count |-> "0"])
    ELSE Payload([exists |-> TRUE, error |-> "TemporalError"])

\* the routes of the FastAPI application
Handle(request) ==
    CASE request.handler = "send_prompt" -> api_send_prompt(request.env)
      [] request.handler = "send_confirm" -> api_send_confirm(request.env)
      [] request.handler = "end_chat" -> api_end_chat(request.env)
      [] request.handler = "start_workflow" -> api_start_workflow(request.env)
      [] request.handler = "get_tool_data" -> api_get_tool_data(request.env)
      [] request.handler = "get_conversation_history" ->
           api_get_conversation_history(request.env)
      [] request.handler = "get_workflow_state" -> api_get_workflow_state(request.env)
      [] request.handler = "run_tool" -> api_run_tool(request.env)

\* a client makes a request
ApiInit ==
    /\ InitWorkflow
    /\ InitSelector
    /\ InitMidi
    /\ api_request \in Requests
    /\ api_response = NoResponse

\* the handler answers it
ApiHandle ==
    /\ api_response = NoResponse
    /\ api_response' = Handle(api_request)
    /\ UNCHANGED <<workflow_vars, selector_vars, midi_vars, api_request>>

ApiNext == ApiHandle

ApiSpec == ApiInit /\ [][ApiNext]_vars

---------------------------------------------------------------------------
(* Properties.                                                             *)

Last(seq) == seq[Len(seq)]

IsPrefix(a, b) == Len(a) <= Len(b) /\ SubSeq(b, 1, Len(a)) = a

IsSignalPrompt(p) == p.src = "signal"

RECURSIVE Ids(_)
Ids(q) == IF q = <<>> THEN <<>> ELSE <<Head(q).id>> \o Ids(Tail(q))

\* the acceptance numbers of the signal prompts of a queue, in queue order
SignalIds(q) == Ids(SelectSeq(q, IsSignalPrompt))

Actors(history) == {history[i].actor : i \in 1..Len(history)}

\* C1: a tool activity is in flight (and its user_confirmed_tool_run message
\* was appended) only when the most recent planner result has next = confirm
\* and names a tool.
C1_ConfirmationGating ==
    pc = "tool" => /\ tool_data.next = "confirm"
                   /\ tool_data.tool # NoTool

\* C2: between two planner results the tool activity is started at most once,
\* however many confirm signals are delivered.
C2_AtMostOncePerProposal == dispatched <= 1

\* a confirm signal arrived after the tool was dispatched, the loop has
\* iterated again with the flag set, and the tool was not dispatched again
C2_Witness ==
    /\ pc = "plan"
    /\ confirm
    /\ dispatched = 1
    /\ prompt.src = "tool_completion"

C4_HistoryAppendOnly ==
    [][runs' = runs => /\ IsPrefix(get_conversation_history, get_conversation_history')
                       /\ Len(get_conversation_history') >= Len(get_conversation_history)]_vars

\* a history that grew through a prompt, a proposal, a confirmed run and a result
C4_Witness ==
    /\ Len(conversation_history) >= 4
    /\ {"user", "agent", "user_confirmed_tool_run", "tool_result"}
         \subseteq Actors(conversation_history)

\* C5: when the tool activity fails (no result is added to tool_results) the
\* run does not fail: exactly one tool_result message with an error and the
\* tool's name is appended, the completion prompt is queued, and run() goes
\* on to the continuation check and the wait condition.
C5_ToolFailureNonFatal ==
    [][(pc = "tool" /\ pc' # "tool" /\ tool_results' = tool_results)
         => /\ pc' \in {"wait", "summary"}
            /\ Len(conversation_history') = Len(conversation_history) + 1
            /\ Last(conversation_history').actor = "tool_result"
            /\ Last(conversation_history').response =
                 [tool |-> tool_data.tool, error |-> "ActivityError"]
            /\ tool_data.tool # NoTool
            /\ prompt_queue' # <<>>
            /\ Last(prompt_queue').src = "tool_completion"]_vars

\* after a failed tool the completion prompt was dequeued and is being planned
C5_Witness ==
    /\ pc = "plan"
    /\ prompt.src = "tool_completion"
    /\ Last(conversation_history).actor = "tool_result"
    /\ "error" \in DOMAIN Last(conversation_history).response

\* C6: once end_chat has been received, no prompt is accepted into the queue.
C6_EndChatTerminal == [][end_chat_received => accepted' = accepted]_vars

C9_ContinuationPolicy ==
    pc = "wait" => Len(conversation_history) < MAX_TURNS_BEFORE_CONTINUE

\* C10: a rejected prompt adds exactly one agent message after its user
\* message, leaves the pending tool data, the confirmation state and the
\* queue alone, returns to the wait condition, and is never planned.
C10_ValidationFailure ==
    /\ [][(/\ pc = "validate"
            /\ pc' \notin {"validate", "failed"}
            /\ validation_result' = ValidationRejected)
            => /\ pc' = "wait"
               /\ Last(conversation_history) = [actor |-> "user", response |-> prompt]
               /\ conversation_history' =
                    Append(conversation_history,
                           [actor |-> "agent",
                            response |-> [validationFailedReason |-> "reason"]])
               /\ UNCHANGED <<tool_data, waiting_for_confirm, current_tool, confirm,
                              prompt_queue>>]_vars
    /\ []((pc = "plan" /\ ~startswith_marker(prompt)) => validation_result = ValidationOk)

\* a rejection while a proposal is awaiting confirmation
C10_Witness ==
    /\ pc = "wait"
    /\ validation_result = ValidationRejected
    /\ Last(conversation_history).actor = "agent"
    /\ waiting_for_confirm
    /\ tool_data.next = "confirm"

\* C11: when the planner result is confirm with a tool named, then with a
\* missing argument value the follow-up prompt is queued, nothing is appended
\* to the history, run() is back at the wait condition not awaiting a
\* confirmation and no tool activity is started; with every value set run()
\* awaits the confirmation, the confirm flag is cleared and the proposal is
\* appended as one agent message.
C11_ConfirmProposal ==
    [][(/\ pc = "plan"
        /\ pc' \notin {"plan", "failed"}
        /\ tool_data'.next = "confirm"
        /\ tool_data'.tool # NoTool)
        => IF tool_data'.args = ArgsMissing
             THEN /\ prompt_queue' =
                       Append(prompt_queue, generate_missing_args_prompt(tool_data'.tool, tool_data'))
                  /\ conversation_history' = conversation_history
                  /\ ~waiting_for_confirm'
                  /\ pc' = "wait"
                  /\ dispatched' = 0
             ELSE /\ waiting_for_confirm'
                  /\ ~confirm'
                  /\ conversation_history' =
                       Append(conversation_history, [actor |-> "agent", response |-> tool_data'])
                  /\ prompt_queue' = prompt_queue
                  /\ dispatched' = 0]_vars

\* C12: a confirm signal delivered while run() is not awaiting a confirmation
\* changes nothing: history, queue, tool data, confirm flag and waiting flag
\* are what they were.
C12_ConfirmIgnored ==
    [][(~waiting_for_confirm /\ UNCHANGED <<pc, submitted, chat_ended>>)
        => UNCHANGED <<conversation_history, prompt_queue, tool_data, confirm,
                       waiting_for_confirm>>]_vars

\* C13: once end_chat has been received, no prompt is dequeued (to be
\* validated or planned) and no tool activity is started.
C13_EndChatStops ==
    [][end_chat_received
        => /\ dequeued' = dequeued
           /\ ~(pc = "wait" /\ pc' \in {"validate", "plan", "tool"})]_vars

\* the same within one execution context: once chat_ended is set, run()
\* leaves the wait condition only by returning
EndChatStopsInContext ==
    [][chat_ended => ~(pc = "wait" /\ pc' \in {"validate", "plan", "tool"})]_vars

\* C14: a planner result with next = done appends exactly one agent message,
\* the planner result, and run() returns the history that ends with it: no
\* continuation check is made, and the queue and the confirm flag are left
\* as they are.
C14_DoneTerminates ==
    /\ [][(/\ pc = "plan"
           /\ pc' \notin {"plan", "failed"}
           /\ tool_data'.next = "done")
           => /\ pc' = "done"
              /\ conversation_history' =
                   Append(conversation_history, [actor |-> "agent", response |-> tool_data'])
              /\ UNCHANGED <<prompt_queue, confirm>>]_vars
    /\ [][pc = "done" => UNCHANGED <<pc, conversation_history>>]_vars

\* run() returned after a done result at the turn budget, with a prompt still
\* queued and the confirm flag set
C14_Witness ==
    /\ pc = "done"
    /\ ~chat_ended
    /\ Last(conversation_history) = [actor |-> "agent", response |-> tool_data]
    /\ tool_data.next = "done"
    /\ Len(conversation_history) >= MAX_TURNS_BEFORE_CONTINUE
    /\ prompt_queue # <<>>
    /\ confirm

C16_SummaryFallback ==
    [][(/\ pc = "summary"
        /\ pc' # "summary"
        /\ params'.conversation_summary = SummaryPlaceholder)
        => /\ pc' = "continue_as_new"
           /\ conversation_history' =
                conversation_history \o
                  <<[actor |-> "system", response |-> [type |-> "system"]],
                    [actor |-> "conversation_summary", response |-> SummaryPlaceholder]>>
           /\ params'.prompt_queue = prompt_queue]_vars

\* a hand-off issued with the placeholder summary and a non-empty queue
C16_Witness ==
    /\ pc = "continue_as_new"
    /\ params.conversation_summary = SummaryPlaceholder
    /\ params.prompt_queue # <<>>
    /\ params.prompt_queue = prompt_queue
    /\ Last(conversation_history).response = SummaryPlaceholder

\* C17: the run fails only when the planner activity fails; a validation
\* activity that exhausts its retry budget does not fail the run.
C17_ValidationFailureNotFatal ==
    [][(pc # "failed" /\ pc' = "failed") => pc = "plan"]_vars

\* C18: whatever the engine or the tool does during a request, the client
\* gets a payload from the handler, never an error raised by it.
C18_NoExceptionToClient == api_response.kind \in {"none", "payload"}

\* the same for the seven handlers that talk to the engine
EngineHandlersDegrade ==
    api_request.handler # "run_tool" => api_response.kind \in {"none", "payload"}

\* the spellings of a lower-case word that differ from it in case only
Spellings(w) ==
    {w} \cup (IF w = "only" THEN {"Only"} ELSE {})
        \cup (IF w = "music" THEN {"MUSIC"} ELSE {})
        \cup (IF w = "json" THEN {"Json"} ELSE {})

\* the phrase occurs in the text, whatever the case of the letters
Mentions(text, phrase) ==
    \E i \in 1..Len(text) :
        /\ i + Len(phrase) - 1 <= Len(text)
        /\ \A k \in 1..Len(phrase) : text[i + k - 1] \in Spellings(phrase[k])

MentionsAny(text, phrases) == \E ph \in phrases : Mentions(text, ph)

MusicPhrases == {<<"only", "use", "music", "tool">>, <<"only", "music">>}

JsonPhrases == {<<"only", "use", "json", "tool">>, <<"only", "json">>}

TrainPhrases == {<<"only", "uk", "travel">>, <<"only", "train", "booking">>}

EventPhrases == {<<"only", "oceania", "events">>, <<"only", "event", "booking">>}

\* C19: the goal returned is the unified goal exactly when the text mentions
\* no override phrase (in whatever case); otherwise it is the goal of the
\* first of music, json, train, event whose phrase is mentioned; running the
\* selector again on the same text returns the same goal and touches nothing
\* of the conversation.
C19_GoalSelector ==
    /\ [](selector_goal # NotSelected =>
            LET music == MentionsAny(selector_text, MusicPhrases)
                json  == MentionsAny(selector_text, JsonPhrases)
                train == MentionsAny(selector_text, TrainPhrases)
                event == MentionsAny(selector_text, EventPhrases)
            IN /\ music => selector_goal = "music_creation_goal"
               /\ (~music /\ json) => selector_goal = "json_array_creation_goal"
               /\ (~music /\ ~json /\ train) => selector_goal = "goal_match_train_invoice"
               /\ (~music /\ ~json /\ ~train /\ event)
                    => selector_goal = "goal_event_flight_invoice"
               /\ (selector_goal = "unified_agent_goal")
                    <=> ~(music \/ json \/ train \/ event))
    /\ [][selector_goal # NotSelected => selector_goal' = selector_goal]_vars
    /\ [][UNCHANGED <<workflow_vars, selector_text>>]_vars

\* a text that mentions the json phrase first and then, in capitals, the
\* music phrase: the music goal is returned
C19_Witness ==
    /\ selector_text = <<"only", "json", "Only", "MUSIC">>
    /\ selector_goal = "music_creation_goal"

\* what the tool's contract accepts as an item
ValidItem(item) ==
    /\ Len(item) = 2
    /\ IsNumber(item[1])
    /\ item[1].num = 0 \/ item[1].num \in 21..108
    /\ IsNumber(item[2])
    /\ item[2].num \in 0..200

MessagesOf(item) == IF item[1].num = 0 THEN 1 ELSE 2

\* the number of messages that the items before the i-th stand for
RECURSIVE Offset(_, _)
Offset(items, i) ==
    IF i = 1 THEN 0 ELSE Offset(items, i - 1) + MessagesOf(items[i - 1])

\* the error names the item: the item itself, or its note, or its duration
NamesItem(error, item) ==
    \/ error = [text |-> "Invalid format for item", item |-> item]
    \/ /\ Len(item) = 2
       /\ \/ error = [text |-> "Invalid note", note |-> item[1]]
          \/ error = [text |-> "Invalid duration", duration |-> item[2]]

\* what the tool returns when every item is valid: the message list holds, in
\* input order, note_on and note_off for each sounding note and one delay for
\* each silence, and nothing else
SuccessAsClaimed(items, result) ==
    /\ result.status = "success"
    /\ Len(result.result) = Offset(items, Len(items) + 1)
    /\ \A i \in 1..Len(items) :
         LET at == Offset(items, i)
         IN IF items[i][1].num = 0
              THEN result.result[at + 1].type = "delay"
              ELSE /\ result.result[at + 1].type = "note_on"
                   /\ result.result[at + 1].note = items[i][1].num
                   /\ result.result[at + 2].type = "note_off"
                   /\ result.result[at + 2].note = items[i][1].num

\* C20: once midi_creation_tool has returned: with every item valid the
\* status is success and the message list holds, in input order, note_on and
\* note_off for each sounding note and one delay for each silence, and
\* nothing else; with music_text absent or some item invalid the status is
\* error, the error names the first invalid item (or the missing argument)
\* and there is no message list.
C20_MidiCreation ==
    midi_result # NotCalled =>
      IF "music_text" \notin DOMAIN midi_args
        THEN /\ midi_result.status = "error"
             /\ midi_result.error = [text |-> "Missing 'music_text' argument"]
             /\ "result" \notin DOMAIN midi_result
      ELSE LET items == midi_args.music_text
               invalid == {i \in 1..Len(items) : ~ValidItem(items[i])}
           IN IF invalid = {}
                THEN SuccessAsClaimed(items, midi_result)
                ELSE LET first == CHOOSE i \in invalid : \A j \in invalid : i <= j
                     IN /\ midi_result.status = "error"
                        /\ NamesItem(midi_result.error, items[first])
                        /\ "result" \notin DOMAIN midi_result

\* every member of every pair is a number
AllNumbers(items) ==
    \A i \in 1..Len(items) : \A k \in 1..Len(items[i]) : IsNumber(items[i][k])

\* the same for lists whose items hold numbers only, and for every list
\* without the naming of the item
MidiCreationOnNumbers ==
    (midi_result # NotCalled /\ "music_text" \in DOMAIN midi_args)
      => LET items == midi_args.music_text
             invalid == {i \in 1..Len(items) : ~ValidItem(items[i])}
         IN IF invalid = {}
              THEN SuccessAsClaimed(items, midi_result)
              ELSE LET first == CHOOSE i \in invalid : \A j \in invalid : i <= j
                   IN /\ midi_result.status = "error"
                      /\ "result" \notin DOMAIN midi_result
                      /\ AllNumbers(items) => NamesItem(midi_result.error, items[first])

\* C21: a tool activity is in flight only with an args map in which no value
\* is missing.
C21_CompleteArgsOnly == pc = "tool" => tool_data.args = ArgsComplete

\* C22: in every history a tool_result message comes right after a
\* user_confirmed_tool_run message that names the same tool; the confirmed
\* message is a copy of the planner result that is the latest one when the
\* confirmation is handled, the result is tagged with that result's tool, and
\* while the tool activity is in flight neither the history nor the tool data
\* changes.
C22_ConfirmedRunIsOneSequence ==
    /\ [](\A i \in 1..Len(conversation_history) :
            conversation_history[i].actor = "tool_result"
              => /\ i > 1
                 /\ conversation_history[i - 1].actor = "user_confirmed_tool_run"
                 /\ conversation_history[i].response.tool =
                      conversation_history[i - 1].response.tool)
    /\ [](pc = "tool"
            => /\ Last(conversation_history) =
                    [actor |-> "user_confirmed_tool_run",
                     response |-> [tool_data EXCEPT !.next = "user_confirmed_tool_run"]]
               /\ current_tool = tool_data.tool)
    /\ [][pc = "tool"
            => /\ tool_data' = tool_data
               /\ current_tool' = current_tool
               /\ \/ pc' = "tool" /\ conversation_history' = conversation_history
                  \/ /\ pc' # "tool"
                     /\ Len(conversation_history') = Len(conversation_history) + 1
                     /\ Last(conversation_history').actor = "tool_result"
                     /\ Last(conversation_history').response.tool = tool_data.tool]_vars

\* a tool result recorded after a prompt, a confirm and an end_chat signal had
\* all arrived while the tool activity was in flight
C22_Witness ==
    /\ pc \in {"wait", "summary"}
    /\ conversation_history # <<>>
    /\ Last(conversation_history).actor = "tool_result"
    /\ Last(conversation_history).response.tool = tool_data.tool
    /\ Len(prompt_queue) >= 2
    /\ prompt_queue[1].src = "signal"
    /\ confirm
    /\ chat_ended

\* C23: run() is at one place at a time, so at most one activity is in
\* flight; a signal handled while an activity is in flight changes only the
\* queue (by appending) and the confirm and chat_ended flags, never the
\* history or the tool data; and what it left is taken up (a prompt dequeued,
\* a tool started) only from the wait condition.
C23_SingleThread ==
    /\ [][(pc \in {"validate", "plan", "tool", "summary"} /\ pc' = pc)
            => /\ UNCHANGED <<conversation_history, tool_data, tool_results,
                              waiting_for_confirm, current_tool, prompt,
                              conversation_summary, params, dispatched, dequeued>>
               /\ IsPrefix(prompt_queue, prompt_queue')
               /\ Len(prompt_queue') <= Len(prompt_queue) + 1]_vars
    /\ [][(Len(prompt_queue') < Len(prompt_queue) \/ dispatched' > dispatched)
            => pc = "wait"]_vars

\* the planner activity is in flight and a prompt, a confirm and an end_chat
\* signal have been delivered meanwhile
C23_Witness ==
    /\ pc = "plan"
    /\ prompt_queue # <<>>
    /\ Last(prompt_queue).src = "signal"
    /\ confirm
    /\ chat_ended
    /\ tool_data = None

\* C24: whenever run() is at its wait condition and the condition holds, the
\* iteration that follows returns, handles the confirmation or dequeues a
\* prompt: there is no iteration that consumes nothing.
C24_NoIdleIteration ==
    (pc = "wait" /\ WaitCondition) => (chat_ended \/ ConfirmBranch \/ prompt_queue # <<>>)

\* C25: a complete proposal that is awaiting confirmation when a context hands
\* off is still awaiting confirmation, with the same tool data, in the
\* context that follows.
C25_ProposalSurvivesContinuation ==
    [][(/\ pc = "continue_as_new"
        /\ pc' # pc
        /\ waiting_for_confirm
        /\ tool_data # None
        /\ tool_data.next = "confirm"
        /\ tool_data.args = ArgsComplete)
        => /\ waiting_for_confirm'
           /\ tool_data' = tool_data
           /\ current_tool' = current_tool]_vars

\* C26: an end_chat that arrived while the summary activity was in flight
\* still holds in the context that follows the hand-off (or the run has
\* returned).
C26_EndChatDuringContinuation ==
    [][(pc = "continue_as_new" /\ pc' # pc /\ end_chat_in_summary)
        => (chat_ended' \/ pc' = "done")]_vars

\* C27: the first prompt that run() dequeues after a tool activity was
\* started (no planner result has come since) is the synthesized completion
\* prompt of that tool's result.
C27_CompletionPlannedNext ==
    [][(pc = "wait" /\ pc' \in {"validate", "plan"} /\ dispatched = 1)
        => prompt'.src = "tool_completion"]_vars

\* C28: the waiting_for_confirm that get_workflow_state returns is true
\* exactly when a confirm signal delivered now would start a tool.
C28_WaitingReported ==
    get_workflow_state.waiting_for_confirm
      <=> (waiting_for_confirm /\ current_tool # NoTool /\ tool_data # None)

\* C29: a dequeued prompt that carries the marker goes straight to the
\* planner activity with the history as it was; any other dequeued prompt is
\* appended as a user message and goes to the validation activity, and the
\* planner activity is started for it only when that validation has accepted
\* it.
C29_MarkerSkipsValidation ==
    /\ [][(pc = "wait" /\ pc' \in {"validate", "plan"})
            => /\ prompt' = Head(prompt_queue)
               /\ IF prompt'.marker
                    THEN /\ pc' = "plan"
                         /\ conversation_history' = conversation_history
                    ELSE /\ pc' = "validate"
                         /\ conversation_history' =
                              Append(conversation_history,
                                     [actor |-> "user", response |-> prompt'])]_vars
    /\ [][(pc # "plan" /\ pc' = "plan")
            => \/ pc = "wait" /\ prompt'.marker
               \/ /\ pc = "validate"
                  /\ ~prompt.marker
                  /\ validation_result' = ValidationOk
                  /\ prompt' = prompt]_vars

\* the starter prompt went straight to the planner and a later plain prompt,
\* accepted by the validation, is being planned after its user message
C29_Witness ==
    /\ pc = "plan"
    /\ ~prompt.marker
    /\ validation_result = ValidationOk
    /\ Len(conversation_history) >= 2
    /\ conversation_history[1].actor = "agent"
    /\ Last(conversation_history) = [actor |-> "user", response |-> prompt]
    /\ dequeued = <<1, 2>>

\* C30: the run stops with an accepted prompt still in its queue only
\* through end_chat, through a planner result done or through a failure of
\* the planner activity.
C30_QueueProgress ==
    [][(pc \notin {"done", "failed"} /\ pc' \in {"done", "failed"}
          /\ SignalIds(prompt_queue) # <<>>)
        => \/ pc = "wait" /\ chat_ended
           \/ pc = "plan"]_vars

\* the progress itself, a stop of the run by any failed activity set aside:
\* under LiveSpec every accepted prompt is dequeued unless the run stops or
\* the last context the model follows hands off
WasDequeued(i) == \E k \in 1..Len(dequeued) : dequeued[k] = i

QueueProgressUnlessStopped ==
    \A i \in 1..MaxPrompts :
        (accepted >= i)
          ~> \/ WasDequeued(i)
             \/ pc \in {"done", "failed"}
             \/ pc = "continue_as_new" /\ runs = MaxRuns

=============================================================================
